---- MODULE Spec2Model ----
(***************************************************************************)
(* Model of src/app.py: the Helena <-> FACTA adapter.  An operation is     *)
(* one request to /consulta-ofertas or /formalizar; it is a chain of       *)
(* awaited lender calls.  Every await is a suspension point, so each       *)
(* action below runs from the return of one lender call to the issue of    *)
(* the next one (or to the end of the operation).                          *)
(***************************************************************************)
EXTENDS Integers, Sequences, FiniteSets, TLC

(* ------------------------------------------------------------------ *)
(* Bounds and universes of the model                                   *)
(* ------------------------------------------------------------------ *)

\* longest "tabelas" list the lender returns
MaxTables == 2

\* longest offer list the lender returns
MaxOffers == 2

\* operation slots (concurrent requests the server may be handling)
OpIds == {1, 2}

\* characters of an id-number input
Digit == {"0", "1", "2", "3", "4", "5", "6", "7", "8", "9"}

\* raw cpf inputs of the request bodies
CpfInputs ==
    { <<"1", "2", ".", "3">>, <<"4", "-", "5">>, <<" ", "0", "/", "9", "x">>,
      <<"7", "7">>, <<".", "-">> }

(* ------------------------------------------------------------------ *)
(* JSON values as Python sees them after r.json()                      *)
(* ------------------------------------------------------------------ *)

JNum(n) == [k |-> "num", n |-> n]
JStr(s) == [k |-> "str", s |-> s]
JList(items) == [k |-> "list", items |-> items]
PyNone == [k |-> "null"]
\* a parsed JSON object is a record of its fields; scalars and lists are tagged
IsDict(v) == "k" \notin DOMAIN v
\* a local variable that has not been assigned yet
Unset == [k |-> "unset"]

\* dict.get(f, default)
Get(j, f, default) == IF f \in DOMAIN j THEN j[f] ELSE default

\* Python truthiness of a JSON scalar (the "if not x" tests)
Truthy(v) ==
    CASE "k" \notin DOMAIN v -> DOMAIN v # {}
      [] v.k = "null" -> FALSE
      [] v.k = "str" -> v.s # ""
      [] v.k = "num" -> v.n # 0
      [] v.k = "list" -> v.items # << >>
      [] OTHER -> TRUE

\* Python's "a or b"
Or(a, b) == IF Truthy(a) THEN a ELSE b

\* decimal rendering of the integers the model uses
IntStr(n) ==
    CASE n = -1 -> "-1"
      [] n = 0 -> "0"
      [] n = 1 -> "1"
      [] n = 2 -> "2"
      [] n = 3 -> "3"
      [] n = 5 -> "5"
      [] OTHER -> "n"

\* str(v) and the f-string rendering "{v}"
Str(v) ==
    CASE "k" \notin DOMAIN v -> "{...}"
      [] v.k = "null" -> "None"
      [] v.k = "str" -> v.s
      [] v.k = "num" -> IntStr(v.n)
      [] OTHER -> "?"

\* strings float() accepts, with their values
NumericStrings == [s \in {"1", "2"} |-> IF s = "1" THEN 1 ELSE 2]

\* float(v): [ok |-> TRUE, val |-> number] or the exception it raises
Float(v) ==
    CASE v.k = "num" -> [ok |-> TRUE, val |-> v.n, exc |-> ""]
      [] v.k = "str" ->
           IF v.s \in DOMAIN NumericStrings
             THEN [ok |-> TRUE, val |-> NumericStrings[v.s], exc |-> ""]
             ELSE [ok |-> FALSE, val |-> 0, exc |-> "ValueError"]
      [] OTHER -> [ok |-> FALSE, val |-> 0, exc |-> "TypeError"]

\* digits as it would be if the input were passed on as it came
digits_raw(s) == s

\* digits(s): re.sub(r"\D", "", s or "")
digits(s) == SelectSeq(s, LAMBDA c : c \in Digit)

(* ------------------------------------------------------------------ *)
(* Configuration                                                       *)
(* ------------------------------------------------------------------ *)

BASIC_AUTH == "Basic <credential>"
LOGIN_CERT == "96676"

(* ------------------------------------------------------------------ *)
(* What the lender may answer                                          *)
(* ------------------------------------------------------------------ *)

\* a call that never returns a response: httpx raises instead
TransportFailures ==
    { [kind |-> "exc", exc |-> "httpx.ConnectError"],
      [kind |-> "exc", exc |-> "httpx.TimeoutException"] }

Statuses == {200, 500}
ContentTypes == {"application/json", "text/html; charset=UTF-8"}

\* a body r.json() cannot decode
Garbage == [raw |-> "<html>blocked</html>"]
JsonBody(obj) == [json |-> obj]
\* a body that decodes to something that is not an object
NonObject == [json |-> [k |-> "list", items |-> << >>]]
IsJson(text) == "json" \in DOMAIN text

Responses(bodies) ==
    { [kind |-> "response", status |-> s, ctype |-> c, text |-> b] :
        s \in Statuses, c \in ContentTypes, b \in bodies }

Replies(bodies) == TransportFailures \cup Responses(bodies)

\* r.headers.get("content-type","").startswith("text/html")
IsHtml(r) == r.ctype \in {"text/html", "text/html; charset=UTF-8"}

TokenBodies ==
    { Garbage,
      JsonBody([token |-> JStr("tokA")]),
      JsonBody([token |-> JStr("tokB")]),
      JsonBody([token |-> JStr("")]),
      JsonBody([token |-> PyNone]),
      JsonBody([erro |-> JStr("denied")]),
      NonObject }

\* entries of the offer list of /consignado-trabalhador/consulta-ofertas
OfferEntries ==
    { [oferta |-> JStr("Refin"), resposta |-> JStr("Aprovado")],
      [descricao |-> JStr("Refin"), situacao |-> JStr("Aprovado")],
      [oferta |-> JStr("Novo"), descricao |-> JStr("Refin"),
       resposta |-> JStr("Negado"), situacao |-> JStr("Aprovado")],
      [oferta |-> JStr(""), descricao |-> JStr("Refin"),
       resposta |-> PyNone, situacao |-> JStr("Aprovado")],
      [oferta |-> JStr(""), resposta |-> JStr("")],
      [id |-> JNum(1)],
      JStr("sem oferta") }

OfferLists == UNION { [1..n -> OfferEntries] : n \in 0..MaxOffers }

OfferBodies ==
    { Garbage, NonObject,
      JsonBody([erro |-> JStr("cpf invalido")]),
      JsonBody([dados |-> JStr("nenhuma")]) }
    \cup { JsonBody([dados |-> JList(l)]) : l \in OfferLists }
    \cup { JsonBody([ofertas |-> JList(l)]) : l \in OfferLists }
    \cup { JsonBody([dados |-> JList(<< >>), ofertas |-> JList(l)]) : l \in OfferLists }

\* rate-table candidates of /proposta/operacoes-disponiveis
NetValues == { JNum(-1), JNum(2), JStr("2"), JStr("abc") }
TableCodes == { JStr("T1"), JStr("T2") }

Tables ==
    { [codigoTabela |-> c, prazo |-> JStr("12"), valor_liquido |-> v] :
        c \in TableCodes, v \in NetValues }
    \cup { [codigoTabela |-> c, prazo |-> JStr("12")] : c \in TableCodes }
    \cup { [codigoTabela |-> JStr("T1"), prazo |-> JStr("12"), valor_liquido |-> v,
            contrato |-> JNum(3)] : v \in NetValues }
    \cup { [codigoTabela |-> JStr("T1"), prazo |-> JStr("12"), contrato |-> JNum(3)],
           [prazo |-> JStr("12"), valor_liquido |-> JNum(2)] }
    \cup { [codigoTabela |-> JStr("T2"), prazo |-> JStr("24"), valor_liquido |-> v,
            parcela |-> JNum(5), coeficiente |-> JStr("0.05")] : v \in {JNum(-1), JNum(2)} }

TableLists == UNION { [1..n -> Tables] : n \in 0..MaxTables }

AvailableBodies ==
    { Garbage, NonObject,
      JsonBody([erro |-> JStr("parametros")]),
      JsonBody([tabelas |-> PyNone]) }
    \cup { JsonBody([tabelas |-> JList(l)]) : l \in TableLists }

SimBodies ==
    { Garbage, NonObject,
      JsonBody([id_simulador |-> JStr("S1")]),
      JsonBody([id_simulador |-> JStr("S2")]),
      JsonBody([id_simulador |-> PyNone]),
      JsonBody([erro |-> JStr("margem")]) }

RegBodies ==
    { Garbage, NonObject,
      JsonBody([codigo_cliente |-> JStr("K1")]),
      JsonBody([codigo_cliente |-> JStr("K2")]),
      JsonBody([codigo_cliente |-> JStr("")]),
      JsonBody([erro |-> JStr("cep")]) }

PropBodies ==
    { Garbage, NonObject,
      JsonBody([codigo |-> JStr("P1"), url_formalizacao |-> JStr("U1")]),
      JsonBody([codigo |-> JStr("P2"), url_formalizacao |-> JStr("U2")]),
      JsonBody([codigo |-> JStr("P1")]),
      JsonBody([url_formalizacao |-> JStr("U1")]),
      JsonBody([erro |-> JStr("banco")]) }

LinkBodies ==
    { Garbage, JsonBody([erro |-> JStr("numero")]), JsonBody([enviado |-> JStr("S")]) }

(* ------------------------------------------------------------------ *)
(* Requests the adapter receives                                       *)
(* ------------------------------------------------------------------ *)

\* the fields of ConsultaIn / FormalizarIn that the handlers read by name; the
\* rest of the applicant profile travels with them in model_dump()
Bodies ==
    { [cpf |-> c, nome |-> "Ana", data_nascimento |-> "01/02/1990", prazo |-> 12,
       opcao_valor |-> 1, valor_parcela |-> 250, renda |-> 3000] :
        c \in CpfInputs }

Operations ==
    { [kind |-> k, body |-> b] : k \in {"consulta_ofertas", "formalizar"}, b \in Bodies }

NoOperation == [kind |-> "none"]

(* ------------------------------------------------------------------ *)
(* State                                                               *)
(* ------------------------------------------------------------------ *)

VARIABLES
    op,             \* op[o]: the request slot o is serving
    pc,             \* pc[o]: the await the operation is suspended at
    token,          \* locals of the handler
    cpf,
    best,
    id_sim,
    codigo_cliente,
    codigo,
    url_form,
    calls,          \* calls[o]: the lender requests issued so far, in order
    nret,           \* nret[o]: how many of them have returned (or raised)
    lastReply,      \* lastReply[o]: the reply the last returned call got
    open,           \* open[o]: the httpx.AsyncClient contexts still open
    result          \* result[o]: what the caller of the operation receives

vars == <<op, pc, token, cpf, best, id_sim, codigo_cliente, codigo, url_form,
          calls, nret, lastReply, open, result>>

locals == <<token, cpf, best, id_sim, codigo_cliente, codigo, url_form>>

NoResult == [type |-> "none"]
NoReply == [kind |-> "none"]

\* raise HTTPException(status_code, f"{msg}{data}")
HTTPException(code, msg, data) ==
    [type |-> "HTTPException", status_code |-> code, msg |-> msg, data |-> data]

\* an exception no handler catches (the framework answers 500)
Unhandled(exc) == [type |-> "Unhandled", exc |-> exc]

NoData == [k |-> "none"]

Basic == [scheme |-> "Basic", cred |-> BASIC_AUTH]
Bearer(tok) == [scheme |-> "Bearer", cred |-> Str(tok)]

Request(ep, auth, data) == [ep |-> ep, auth |-> auth, data |-> data]

(* ------------------------------------------------------------------ *)
(* Outcome of a piece of handler code: it raises or it yields a value  *)
(* ------------------------------------------------------------------ *)

Raise(res) == [raised |-> TRUE, res |-> res, val |-> Unset]
Return(v) == [raised |-> FALSE, res |-> NoResult, val |-> v]

\* r.json(), then the attribute access .get on what it decoded
Json(r) ==
    IF ~IsJson(r.text) THEN Raise(Unhandled("JSONDecodeError"))
    ELSE IF ~IsDict(r.text.json) THEN Raise(Unhandled("AttributeError"))
    ELSE Return(r.text.json)

(* ------------------------------------------------------------------ *)
(* get_token                                                           *)
(* ------------------------------------------------------------------ *)

\* what get_token does with the reply to GET /gera-token
get_token(r) ==
    IF r.kind = "exc" THEN Raise(Unhandled(r.exc))
    ELSE IF IsHtml(r)
      THEN Raise(HTTPException(502, "FACTA retornou pagina HTML (WAF). Peca whitelist de IP.", NoData))
    ELSE IF r.status # 200
      THEN Raise(HTTPException(502, "Token error: ", r.text))
    ELSE IF Json(r).raised THEN Json(r)
    ELSE LET j == Json(r).val
             tok == Get(j, "token", PyNone)
         IN  IF ~Truthy(tok)
               THEN Raise(HTTPException(502, "Token vazio: ", j))
               ELSE Return(tok)

\* headers built from the static credential instead of the token
headers_static(tok) == Basic

\* the Authorization header of every call after the token exchange
headers(tok) == Bearer(tok)

(* ------------------------------------------------------------------ *)
(* consulta_ofertas                                                    *)
(* ------------------------------------------------------------------ *)

\* oferta_de with the two names of each field tried in the other order
oferta_de_second_first(d) ==
    [oferta |-> Or(Get(d, "descricao", PyNone), Get(d, "oferta", PyNone)),
     resposta |-> Or(Get(d, "situacao", PyNone), Get(d, "resposta", PyNone))]

\* the offer appended for the raw entry d
oferta_de(d) ==
    [oferta |-> Or(Get(d, "oferta", PyNone), Get(d, "descricao", PyNone)),
     resposta |-> Or(Get(d, "resposta", PyNone), Get(d, "situacao", PyNone))]

RECURSIVE ofertas_of_reversed(_)
\* ofertas_of as it would be if each offer were put at the front of the list
ofertas_of_reversed(raw) ==
    IF raw = << >> THEN Return(<< >>)
    ELSE LET d == raw[Len(raw)]
             init == ofertas_of_reversed(SubSeq(raw, 1, Len(raw) - 1))
         IN  IF init.raised THEN init
             ELSE IF ~IsDict(d) THEN Raise(Unhandled("AttributeError"))
             ELSE Return(<< oferta_de(d) >> \o init.val)

RECURSIVE ofertas_of(_)
\* the loop over ofertas_raw; an entry that is not an object has no .get
ofertas_of(raw) ==
    IF raw = << >> THEN Return(<< >>)
    ELSE LET d == raw[Len(raw)]
             init == ofertas_of(SubSeq(raw, 1, Len(raw) - 1))
         IN  IF init.raised THEN init
             ELSE IF ~IsDict(d) THEN Raise(Unhandled("AttributeError"))
             ELSE Return(Append(init.val, oferta_de(d)))

\* what consulta_ofertas does with the reply to the offer lookup
consulta(r, cpf_) ==
    IF r.kind = "exc" THEN Raise(Unhandled(r.exc))
    ELSE IF IsHtml(r)
      THEN Raise(HTTPException(502, "FACTA retornou HTML (WAF). Peca whitelist de IP.", NoData))
    ELSE IF ~IsJson(r.text)
      THEN Raise(HTTPException(502, "Consulta error: ", r.text))
    ELSE IF ~IsDict(r.text.json) THEN Raise(Unhandled("AttributeError"))
    ELSE LET j == r.text.json
             ofertas_raw == Or(Or(Get(j, "dados", PyNone), Get(j, "ofertas", PyNone)),
                               JList(<< >>))
             ofertas == IF ~IsDict(ofertas_raw) /\ ofertas_raw.k = "list"
                          THEN ofertas_of(ofertas_raw.items)
                          ELSE Return(<< >>)
         IN  IF ofertas.raised THEN ofertas
             ELSE Return([status |-> "ok", cpf |-> cpf_,
                          total_ofertas |-> Len(ofertas.val), ofertas |-> ofertas.val])

(* ------------------------------------------------------------------ *)
(* formalizar                                                          *)
(* ------------------------------------------------------------------ *)

\* key=lambda x: float(x.get("valor_liquido",0))
Key(x) == Float(Get(x, "valor_liquido", JNum(0)))

\* Insert as an unstable sort would do it: x goes before the elements of equal key
Insert_unstable(L, x) ==
    LET before == { i \in 1..Len(L) : Key(L[i]).val > Key(x).val }
        n == Cardinality(before)
    IN  SubSeq(L, 1, n) \o << x >> \o SubSeq(L, n + 1, Len(L))

\* place x in a list already in descending key order, after every element
\* whose key is not smaller: equal keys keep their input order
Insert(L, x) ==
    LET before == { i \in 1..Len(L) : Key(L[i]).val >= Key(x).val }
        n == Cardinality(before)
    IN  SubSeq(L, 1, n) \o << x >> \o SubSeq(L, n + 1, Len(L))

RECURSIVE sorted(_)
\* sorted(t, key=..., reverse=True): stable, descending
sorted(t) ==
    IF t = << >> THEN << >>
    ELSE Insert(sorted(SubSeq(t, 1, Len(t) - 1)), t[Len(t)])

\* fd1 as it would be if the net value were preferred to the contract value
fd1_net_first(best_, cpf_, body) ==
    [produto |-> "D", tipo_operacao |-> "13", averbador |-> "10010", convenio |-> "3",
     cpf |-> cpf_, data_nascimento |-> body.data_nascimento,
     login_certificado |-> LOGIN_CERT,
     codigo_tabela |-> Str(best_.codigoTabela),
     prazo |-> Str(best_.prazo),
     valor_operacao |-> Str(Get(best_, "valor_liquido", Get(best_, "contrato", JNum(0)))),
     valor_parcela |-> Str(Get(best_, "parcela", JNum(0))),
     coeficiente |-> Str(Get(best_, "coeficiente", PyNone))]

\* the request body of step 1
fd1(best_, cpf_, body) ==
    [produto |-> "D", tipo_operacao |-> "13", averbador |-> "10010", convenio |-> "3",
     cpf |-> cpf_, data_nascimento |-> body.data_nascimento,
     login_certificado |-> LOGIN_CERT,
     codigo_tabela |-> Str(best_.codigoTabela),
     prazo |-> Str(best_.prazo),
     valor_operacao |-> Str(Get(best_, "contrato", Get(best_, "valor_liquido", JNum(0)))),
     valor_parcela |-> Str(Get(best_, "parcela", JNum(0))),
     coeficiente |-> Str(Get(best_, "coeficiente", PyNone))]

\* operacoes_disponiveis as it would be without the test of the empty list:
\* the subscript [0] of the sorted list then raises
operacoes_disponiveis_unchecked(r) ==
    IF r.kind = "exc" THEN Raise(Unhandled(r.exc))
    ELSE IF Json(r).raised THEN Json(r)
    ELSE LET t == Get(Json(r).val, "tabelas", JList(<< >>))
         IN  IF t.k # "list" THEN Raise(Unhandled("TypeError"))
             ELSE LET bad == { i \in 1..Len(t.items) : ~Key(t.items[i]).ok }
                  IN  IF bad # {}
                        THEN Raise(Unhandled(
                               Key(t.items[CHOOSE i \in bad : \A k \in bad : i <= k]).exc))
                      ELSE IF t.items = << >> THEN Raise(Unhandled("IndexError"))
                      ELSE LET b == sorted(t.items)[1]
                           IN  IF {"codigoTabela", "prazo"} \subseteq DOMAIN b
                                 THEN Return(b)
                                 ELSE Raise(Unhandled("KeyError"))

\* what formalizar does with the reply r1 of operacoes-disponiveis, up to
\* the choice of the best table
operacoes_disponiveis(r) ==
    IF r.kind = "exc" THEN Raise(Unhandled(r.exc))
    ELSE IF Json(r).raised THEN Json(r)
    ELSE LET t == Get(Json(r).val, "tabelas", JList(<< >>))
         IN  IF ~Truthy(t)
               THEN Raise(HTTPException(400,
                      "Sem tabela disponivel para os parametros informados.", NoData))
             ELSE LET bad == { i \in 1..Len(t.items) : ~Key(t.items[i]).ok }
                  IN  IF bad # {}
                        THEN Raise(Unhandled(
                               Key(t.items[CHOOSE i \in bad : \A k \in bad : i <= k]).exc))
                      ELSE LET b == sorted(t.items)[1]
                           IN  IF {"codigoTabela", "prazo"} \subseteq DOMAIN b
                                 THEN Return(b)
                                 ELSE Raise(Unhandled("KeyError"))

\* what formalizar does with the reply r2 of etapa1-simulador
etapa1(r) ==
    IF r.kind = "exc" THEN Raise(Unhandled(r.exc))
    ELSE IF Json(r).raised THEN Json(r)
    ELSE LET j2 == Json(r).val
             v == Get(j2, "id_simulador", PyNone)
         IN  IF ~Truthy(v) THEN Raise(HTTPException(502, "Falha etapa1: ", j2))
             ELSE Return(v)

\* the request body of step 2: body.model_dump() updated with the two keys
fd2(body, id_sim_, cpf_) ==
    [cpf |-> cpf_, nome |-> body.nome, data_nascimento |-> body.data_nascimento,
     prazo |-> body.prazo, opcao_valor |-> body.opcao_valor,
     valor_parcela |-> body.valor_parcela, renda |-> body.renda,
     id_simulador |-> id_sim_]

\* etapa2 as it would be without the test of codigo_cliente
etapa2_unchecked(r) ==
    IF r.kind = "exc" THEN Raise(Unhandled(r.exc))
    ELSE IF Json(r).raised THEN Json(r)
    ELSE Return(Get(Json(r).val, "codigo_cliente", PyNone))

\* what formalizar does with the reply r3 of etapa2-dados-pessoais
etapa2(r) ==
    IF r.kind = "exc" THEN Raise(Unhandled(r.exc))
    ELSE IF Json(r).raised THEN Json(r)
    ELSE LET j3 == Json(r).val
             v == Get(j3, "codigo_cliente", PyNone)
         IN  IF ~Truthy(v) THEN Raise(HTTPException(502, "Falha etapa2: ", j3))
             ELSE Return(v)

\* fd3 with its two identifiers taken from the wrong variables
fd3_swapped(codigo_cliente_, id_sim_) ==
    [codigo_cliente |-> id_sim_, id_simulador |-> codigo_cliente_,
     tipo_formalizacao |-> "DIG"]

\* the request body of step 3
fd3(codigo_cliente_, id_sim_) ==
    [codigo_cliente |-> codigo_cliente_, id_simulador |-> id_sim_,
     tipo_formalizacao |-> "DIG"]

\* etapa3 as it would be without the test of codigo
etapa3_unchecked(r) ==
    IF r.kind = "exc" THEN Raise(Unhandled(r.exc))
    ELSE IF Json(r).raised THEN Json(r)
    ELSE Return([codigo |-> Get(Json(r).val, "codigo", PyNone),
                 url_form |-> Get(Json(r).val, "url_formalizacao", PyNone)])

\* what formalizar does with the reply r4 of etapa3-proposta-cadastro
etapa3(r) ==
    IF r.kind = "exc" THEN Raise(Unhandled(r.exc))
    ELSE IF Json(r).raised THEN Json(r)
    ELSE LET j4 == Json(r).val
             v == Get(j4, "codigo", PyNone)
         IN  IF ~Truthy(v) THEN Raise(HTTPException(502, "Falha etapa3: ", j4))
             ELSE Return([codigo |-> v,
                          url_form |-> Get(j4, "url_formalizacao", PyNone)])

\* the request body of the link delivery
fd_link(codigo_) == [codigo_af |-> codigo_, tipo_envio |-> "Whatsapp"]

\* envio_link as it would be inside a try/except that swallows every failure
envio_link_swallowing(r) == Return(PyNone)

\* envio_link as it would be if the delivery's status were checked
envio_link_checked(r) ==
    IF r.kind = "exc" THEN Raise(Unhandled(r.exc))
    ELSE IF r.status # 200 THEN Raise(HTTPException(502, "Falha envio: ", r.text))
    ELSE Return(PyNone)

\* the await of envio-link: only an exception of the transport leaves it
envio_link(r) ==
    IF r.kind = "exc" THEN Raise(Unhandled(r.exc))
    ELSE Return(PyNone)

\* the value formalizar returns
formalizar_ok(codigo_, url_form_) ==
    [type |-> "ok", status |-> "ok", mensagem |-> "Proposta criada e link enviado.",
     codigo |-> codigo_, url_formalizacao |-> url_form_]

\* the value consulta_ofertas returns
consulta_ok(v) ==
    [type |-> "ok", status |-> v.status, cpf |-> v.cpf,
     total_ofertas |-> v.total_ofertas, ofertas |-> v.ofertas]

(* ------------------------------------------------------------------ *)
(* Replies drawn for a step                                            *)
(* ------------------------------------------------------------------ *)

\* two requests are being served at once
Concurrent == \A o \in OpIds : op[o] # NoOperation

\* the replies two operations served at once are checked against: the
\* timeout, and the well-formed answers that let an operation go on, with
\* two different values of every field an operation keeps
LeanTokenBodies ==
    TokenBodies \cap { JsonBody([token |-> JStr("tokA")]), JsonBody([token |-> JStr("tokB")]) }

LeanOfferBodies ==
    OfferBodies \cap
      { JsonBody([dados |-> JList(<< [descricao |-> JStr("Refin"),
                                      situacao |-> JStr("Aprovado")] >>)]),
        JsonBody([erro |-> JStr("cpf invalido")]) }

LeanAvailableBodies ==
    AvailableBodies \cap
      { JsonBody([tabelas |-> JList(<< [codigoTabela |-> JStr("T1"), prazo |-> JStr("12"),
                                        valor_liquido |-> JNum(2)] >>)]),
        JsonBody([tabelas |-> JList(<< >>)]) }

LeanSimBodies ==
    SimBodies \cap { JsonBody([id_simulador |-> JStr("S1")]),
                     JsonBody([id_simulador |-> JStr("S2")]) }

LeanRegBodies ==
    RegBodies \cap { JsonBody([codigo_cliente |-> JStr("K1")]),
                     JsonBody([codigo_cliente |-> JStr("K2")]) }

LeanPropBodies ==
    PropBodies \cap { JsonBody([codigo |-> JStr("P1"), url_formalizacao |-> JStr("U1")]),
                      JsonBody([codigo |-> JStr("P2"), url_formalizacao |-> JStr("U2")]) }

LeanLinkBodies == LinkBodies \cap { JsonBody([enviado |-> JStr("S")]) }

LeanReplies(bodies) ==
    { [kind |-> "exc", exc |-> "httpx.TimeoutException"] }
    \cup { [kind |-> "response", status |-> 200, ctype |-> "application/json", text |-> b] :
             b \in bodies }

\* what an awaited call may yield: any reply of the endpoint when one request
\* is served alone, the lean ones when two are served at once
Answers(bodies, lean) == IF Concurrent THEN LeanReplies(lean) ELSE Replies(bodies)

(* ------------------------------------------------------------------ *)
(* Initial state and steps                                             *)
(* ------------------------------------------------------------------ *)

\* a single operation in isolation: one request has arrived in slot 1 and
\* no other request arrives while it is served
Init ==
    /\ op \in { f \in [OpIds -> Operations \cup {NoOperation}] :
                  f[1] # NoOperation /\ \A o \in OpIds \ {1} : f[o] = NoOperation }
    /\ pc = [o \in OpIds |-> IF o = 1 THEN "start" ELSE "idle"]
    /\ token = [o \in OpIds |-> Unset]
    /\ cpf = [o \in OpIds |-> << >>]
    /\ best = [o \in OpIds |-> Unset]
    /\ id_sim = [o \in OpIds |-> Unset]
    /\ codigo_cliente = [o \in OpIds |-> Unset]
    /\ codigo = [o \in OpIds |-> Unset]
    /\ url_form = [o \in OpIds |-> Unset]
    /\ calls = [o \in OpIds |-> << >>]
    /\ nret = [o \in OpIds |-> 0]
    /\ lastReply = [o \in OpIds |-> NoReply]
    /\ open = [o \in OpIds |-> {}]
    /\ result = [o \in OpIds |-> NoResult]

\* the awaited call of o has returned (or raised) with r
Received(o, r) ==
    /\ lastReply' = [lastReply EXCEPT ![o] = r]
    /\ nret' = [nret EXCEPT ![o] = @ + 1]

\* Finish as it would be if the clients were created without "async with"
\* and never closed
Finish_leaking(o, res) ==
    /\ pc' = [pc EXCEPT ![o] = "done"]
    /\ result' = [result EXCEPT ![o] = res]
    /\ open' = open

\* the operation ends: every "async with" block is left, its client closed
Finish(o, res) ==
    /\ pc' = [pc EXCEPT ![o] = "done"]
    /\ result' = [result EXCEPT ![o] = res]
    /\ open' = [open EXCEPT ![o] = {}]

\* the operation issues its next lender call and suspends on it
Send(o, req, next) ==
    /\ calls' = [calls EXCEPT ![o] = Append(@, req)]
    /\ pc' = [pc EXCEPT ![o] = next]
    /\ UNCHANGED result

\* two requests of different applicants have arrived and are served at once
Applicants ==
    << [cpf |-> <<"1", "2", ".", "3">>, nome |-> "Ana", data_nascimento |-> "01/02/1990",
        prazo |-> 12, opcao_valor |-> 1, valor_parcela |-> 250, renda |-> 3000],
       [cpf |-> <<"4", "-", "5">>, nome |-> "Bia", data_nascimento |-> "03/04/1985",
        prazo |-> 24, opcao_valor |-> 2, valor_parcela |-> 400, renda |-> 5000] >>

InitConc ==
    /\ op \in { f \in [OpIds -> [kind : {"consulta_ofertas", "formalizar"},
                                 body : {Applicants[1], Applicants[2]}]] :
                  \A o \in OpIds : f[o].body = Applicants[o] }
    /\ pc = [o \in OpIds |-> "start"]
    /\ token = [o \in OpIds |-> Unset]
    /\ cpf = [o \in OpIds |-> << >>]
    /\ best = [o \in OpIds |-> Unset]
    /\ id_sim = [o \in OpIds |-> Unset]
    /\ codigo_cliente = [o \in OpIds |-> Unset]
    /\ codigo = [o \in OpIds |-> Unset]
    /\ url_form = [o \in OpIds |-> Unset]
    /\ calls = [o \in OpIds |-> << >>]
    /\ nret = [o \in OpIds |-> 0]
    /\ lastReply = [o \in OpIds |-> NoReply]
    /\ open = [o \in OpIds |-> {}]
    /\ result = [o \in OpIds |-> NoResult]

\* the handler starts: get_token opens its client and issues the token exchange
get_token_call(o) ==
    /\ pc[o] = "start"
    /\ Send(o, Request("gera-token", Basic, NoData), "await_token")
    /\ open' = [open EXCEPT ![o] = {"get_token.cx"}]
    /\ UNCHANGED <<op, locals, nret, lastReply>>

\* get_token_return as it would be with a module-level token cache: a token
\* another request already obtained is used instead of the one just received
get_token_return_shared(o) ==
    /\ pc[o] = "await_token"
    /\ \E r \in Answers(TokenBodies, LeanTokenBodies) :
         LET got == get_token(r)
             cached == { token[p] : p \in OpIds \ {o} } \ {Unset}
             out == IF got.raised \/ cached = {} THEN got
                    ELSE Return(CHOOSE t \in cached : TRUE)
             c == digits(op[o].body.cpf)
         IN  /\ Received(o, r)
             /\ IF out.raised
                  THEN /\ Finish(o, out.res)
                       /\ UNCHANGED <<op, locals, calls>>
                  ELSE /\ token' = [token EXCEPT ![o] = out.val]
                       /\ cpf' = [cpf EXCEPT ![o] = c]
                       /\ IF op[o].kind = "consulta_ofertas"
                            THEN /\ Send(o, Request("consulta-ofertas", headers(out.val),
                                                    [cpf |-> c]), "await_consulta")
                                 /\ open' = [open EXCEPT ![o] = {"consulta_ofertas.cx"}]
                            ELSE /\ Send(o, Request("operacoes-disponiveis", headers(out.val),
                                                    [produto |-> "D", tipo_operacao |-> "13",
                                                     averbador |-> "10010", convenio |-> "3",
                                                     opcao_valor |-> op[o].body.opcao_valor,
                                                     valor_parcela |-> op[o].body.valor_parcela,
                                                     prazo |-> op[o].body.prazo, cpf |-> c,
                                                     data_nascimento |-> op[o].body.data_nascimento,
                                                     valor_renda |-> op[o].body.renda]),
                                         "await_r1")
                                 /\ open' = [open EXCEPT ![o] = {"formalizar.cx"}]
                       /\ UNCHANGED <<op, best, id_sim, codigo_cliente, codigo, url_form>>

\* the token exchange returns; on success the handler goes on to its first call
get_token_return(o) ==
    /\ pc[o] = "await_token"
    /\ \E r \in Answers(TokenBodies, LeanTokenBodies) :
         LET out == get_token(r)
             c == digits(op[o].body.cpf)
         IN  /\ Received(o, r)
             /\ IF out.raised
                  THEN /\ Finish(o, out.res)
                       /\ UNCHANGED <<op, locals, calls>>
                  ELSE /\ token' = [token EXCEPT ![o] = out.val]
                       /\ cpf' = [cpf EXCEPT ![o] = c]
                       /\ IF op[o].kind = "consulta_ofertas"
                            THEN /\ Send(o, Request("consulta-ofertas", headers(out.val),
                                                    [cpf |-> c]), "await_consulta")
                                 /\ open' = [open EXCEPT ![o] = {"consulta_ofertas.cx"}]
                            ELSE /\ Send(o, Request("operacoes-disponiveis", headers(out.val),
                                                    [produto |-> "D", tipo_operacao |-> "13",
                                                     averbador |-> "10010", convenio |-> "3",
                                                     opcao_valor |-> op[o].body.opcao_valor,
                                                     valor_parcela |-> op[o].body.valor_parcela,
                                                     prazo |-> op[o].body.prazo, cpf |-> c,
                                                     data_nascimento |-> op[o].body.data_nascimento,
                                                     valor_renda |-> op[o].body.renda]),
                                         "await_r1")
                                 /\ open' = [open EXCEPT ![o] = {"formalizar.cx"}]
                       /\ UNCHANGED <<op, best, id_sim, codigo_cliente, codigo, url_form>>

\* the offer lookup returns
consulta_ofertas_return(o) ==
    /\ pc[o] = "await_consulta"
    /\ \E r \in Answers(OfferBodies, LeanOfferBodies) :
         LET out == consulta(r, cpf[o])
         IN  /\ Received(o, r)
             /\ Finish(o, IF out.raised THEN out.res ELSE consulta_ok(out.val))
             /\ UNCHANGED <<op, locals, calls>>

\* r1 returns: table selection, then step 1 is issued
formalizar_r1(o) ==
    /\ pc[o] = "await_r1"
    /\ \E r \in Answers(AvailableBodies, LeanAvailableBodies) :
         LET out == operacoes_disponiveis(r)
         IN  /\ Received(o, r)
             /\ IF out.raised
                  THEN /\ Finish(o, out.res)
                       /\ UNCHANGED <<op, locals, calls>>
                  ELSE /\ best' = [best EXCEPT ![o] = out.val]
                       /\ Send(o, Request("etapa1-simulador", headers(token[o]),
                                          fd1(out.val, cpf[o], op[o].body)), "await_r2")
                       /\ UNCHANGED <<op, token, cpf, id_sim, codigo_cliente, codigo,
                                      url_form, open>>

\* formalizar_r2 as it would be with a retry: a step-1 reply without the
\* simulation id makes the handler issue step 1 again
formalizar_r2_retry(o) ==
    /\ pc[o] = "await_r2"
    /\ \E r \in Answers(SimBodies, LeanSimBodies) :
         LET out == etapa1(r)
         IN  /\ Received(o, r)
             /\ IF out.raised /\ out.res.type = "HTTPException"
                  THEN /\ Send(o, calls[o][Len(calls[o])], "await_r2")
                       /\ UNCHANGED <<op, locals, open>>
                  ELSE IF out.raised
                  THEN /\ Finish(o, out.res)
                       /\ UNCHANGED <<op, locals, calls>>
                  ELSE /\ id_sim' = [id_sim EXCEPT ![o] = out.val]
                       /\ Send(o, Request("etapa2-dados-pessoais", headers(token[o]),
                                          fd2(op[o].body, out.val, cpf[o])), "await_r3")
                       /\ UNCHANGED <<op, token, cpf, best, codigo_cliente, codigo,
                                      url_form, open>>

\* r2 returns: the simulation id is checked, then step 2 is issued
formalizar_r2(o) ==
    /\ pc[o] = "await_r2"
    /\ \E r \in Answers(SimBodies, LeanSimBodies) :
         LET out == etapa1(r)
         IN  /\ Received(o, r)
             /\ IF out.raised
                  THEN /\ Finish(o, out.res)
                       /\ UNCHANGED <<op, locals, calls>>
                  ELSE /\ id_sim' = [id_sim EXCEPT ![o] = out.val]
                       /\ Send(o, Request("etapa2-dados-pessoais", headers(token[o]),
                                          fd2(op[o].body, out.val, cpf[o])), "await_r3")
                       /\ UNCHANGED <<op, token, cpf, best, codigo_cliente, codigo,
                                      url_form, open>>

\* r3 returns: the client code is checked, then step 3 is issued
formalizar_r3(o) ==
    /\ pc[o] = "await_r3"
    /\ \E r \in Answers(RegBodies, LeanRegBodies) :
         LET out == etapa2(r)
         IN  /\ Received(o, r)
             /\ IF out.raised
                  THEN /\ Finish(o, out.res)
                       /\ UNCHANGED <<op, locals, calls>>
                  ELSE /\ codigo_cliente' = [codigo_cliente EXCEPT ![o] = out.val]
                       /\ Send(o, Request("etapa3-proposta-cadastro", headers(token[o]),
                                          fd3(out.val, id_sim[o])), "await_r4")
                       /\ UNCHANGED <<op, token, cpf, best, id_sim, codigo, url_form, open>>

\* r4 returns: the proposal code is checked, then the link delivery is issued
formalizar_r4(o) ==
    /\ pc[o] = "await_r4"
    /\ \E r \in Answers(PropBodies, LeanPropBodies) :
         LET out == etapa3(r)
         IN  /\ Received(o, r)
             /\ IF out.raised
                  THEN /\ Finish(o, out.res)
                       /\ UNCHANGED <<op, locals, calls>>
                  ELSE /\ codigo' = [codigo EXCEPT ![o] = out.val.codigo]
                       /\ url_form' = [url_form EXCEPT ![o] = out.val.url_form]
                       /\ Send(o, Request("envio-link", headers(token[o]),
                                          fd_link(out.val.codigo)), "await_r5")
                       /\ UNCHANGED <<op, token, cpf, best, id_sim, codigo_cliente, open>>

\* the link delivery returns: its response is not looked at
formalizar_r5(o) ==
    /\ pc[o] = "await_r5"
    /\ \E r \in Answers(LinkBodies, LeanLinkBodies) :
         LET out == envio_link(r)
         IN  /\ Received(o, r)
             /\ Finish(o, IF out.raised THEN out.res
                          ELSE formalizar_ok(codigo[o], url_form[o]))
             /\ UNCHANGED <<op, locals, calls>>

Next ==
    \E o \in OpIds :
        \/ get_token_call(o)
        \/ get_token_return(o)
        \/ consulta_ofertas_return(o)
        \/ formalizar_r1(o)
        \/ formalizar_r2(o)
        \/ formalizar_r3(o)
        \/ formalizar_r4(o)
        \/ formalizar_r5(o)

Spec == Init /\ [][Next]_vars

\* the same handlers, two requests in flight, their steps interleaved at
\* the awaits
SpecConc == InitConc /\ [][Next]_vars

(* ------------------------------------------------------------------ *)
(* Vocabulary of the properties                                        *)
(* ------------------------------------------------------------------ *)

Formalizing(o) == op[o].kind = "formalizar"
Consulting(o) == op[o].kind = "consulta_ofertas"

\* the endpoint whose reply is lastReply[o]
RepliedEp(o) == calls[o][nret[o]].ep

\* r is a response whose body decodes to an object
ObjectReply(r) == r.kind = "response" /\ IsJson(r.text) /\ IsDict(r.text.json)

\* r is a decoded object that does not have field f
Lacks(r, f) == ObjectReply(r) /\ f \notin DOMAIN r.text.json

\* r is a decoded object whose field f has a usable (non-empty) value
Provides(r, f) == ObjectReply(r) /\ f \in DOMAIN r.text.json /\ Truthy(r.text.json[f])

\* the failure kinds of the specification, as the handlers raise them
UpstreamBlocked(res) ==
    /\ res.type = "HTTPException"
    /\ res.status_code = 502
    /\ res.msg \in { "FACTA retornou pagina HTML (WAF). Peca whitelist de IP.",
                     "FACTA retornou HTML (WAF). Peca whitelist de IP." }

UpstreamUnavailable(res) ==
    res.type = "HTTPException" /\ res.status_code = 502 /\ res.msg = "Token error: "

UpstreamProtocolError(res) ==
    /\ res.type = "HTTPException"
    /\ res.status_code = 502
    /\ res.msg \in { "Token vazio: ", "Consulta error: " }

NoEligibleTable(res) ==
    res.type = "HTTPException" /\ res.status_code = 400

StepFailed(res, msg, body) ==
    /\ res.type = "HTTPException"
    /\ res.status_code = 502
    /\ res.msg = msg
    /\ res.data = body

\* the three validated steps: the await they return to, the field they must
\* yield and the message of their failure
ValidatedSteps ==
    { [at |-> "await_r2", ep |-> "etapa1-simulador", field |-> "id_simulador",
       msg |-> "Falha etapa1: "],
      [at |-> "await_r3", ep |-> "etapa2-dados-pessoais", field |-> "codigo_cliente",
       msg |-> "Falha etapa2: "],
      [at |-> "await_r4", ep |-> "etapa3-proposta-cadastro", field |-> "codigo",
       msg |-> "Falha etapa3: "] }

\* the call o was suspended on returns in this step
Returns(o) == nret'[o] = nret[o] + 1

\* a finished operation issues no call and keeps its outcome
StaysFinished(o) ==
    pc[o] = "done" => pc'[o] = "done" /\ calls'[o] = calls[o] /\ result'[o] = result[o]

\* requests are only ever added at the end of the log
AppendOnly(o) ==
    /\ Len(calls'[o]) >= Len(calls[o])
    /\ SubSeq(calls'[o], 1, Len(calls[o])) = calls[o]

(* ------------------------------------------------------------------ *)
(* Properties                                                          *)
(* ------------------------------------------------------------------ *)

\* C1: when the reply to simulate, register or create-proposal is an object
\* without the step's output field (id_simulador, codigo_cliente, codigo),
\* the operation ends at once with that step's failure (502 "Falha etapaN")
\* carrying the decoded reply body, and no further lender call is ever
\* issued by that operation.
C1_StepFailedStopsChain ==
    [][\A o \in OpIds :
         /\ \A s \in ValidatedSteps :
              (pc[o] = s.at /\ Returns(o) /\ Lacks(lastReply'[o], s.field))
                => /\ pc'[o] = "done"
                   /\ StepFailed(result'[o], s.msg, lastReply'[o].text.json)
                   /\ calls'[o] = calls[o]
                   /\ calls[o][Len(calls[o])].ep = s.ep
         /\ StaysFinished(o)]_vars

\* C1 witness: register answered without codigo_cliente; the operation is
\* over with "Falha etapa2" and create-proposal was never called.
C1_Witness ==
    \E o \in OpIds :
        /\ pc[o] = "done"
        /\ Len(calls[o]) = 4
        /\ RepliedEp(o) = "etapa2-dados-pessoais"
        /\ Lacks(lastReply[o], "codigo_cliente")
        /\ StepFailed(result[o], "Falha etapa2: ", lastReply[o].text.json)

\* C2: when the available-operations reply yields an empty table list the
\* operation ends with the 400 "no table" failure and none of simulate,
\* register, create-proposal, send-link is ever called.
C2_NoEligibleTableStops ==
    [][\A o \in OpIds :
         /\ ( /\ pc[o] = "await_r1"
              /\ Returns(o)
              /\ ObjectReply(lastReply'[o])
              /\ Get(lastReply'[o].text.json, "tabelas", JList(<< >>)) = JList(<< >>) )
              => /\ pc'[o] = "done"
                 /\ NoEligibleTable(result'[o])
                 /\ calls'[o] = calls[o]
                 /\ Len(calls[o]) = 2
         /\ pc[o] = "done" => (pc'[o] = "done" /\ calls'[o] = calls[o])]_vars

\* C2 witness: {"tabelas": []} was received and the operation ended with
\* the 400 failure after two lender calls.
C2_Witness ==
    \E o \in OpIds :
        /\ pc[o] = "done"
        /\ Len(calls[o]) = 2
        /\ ObjectReply(lastReply[o])
        /\ "tabelas" \in DOMAIN lastReply[o].text.json
        /\ lastReply[o].text.json.tabelas = JList(<< >>)
        /\ NoEligibleTable(result[o])

\* the requests added to the log of o in this step
NewCalls(o) == (Len(calls[o]) + 1) .. Len(calls'[o])

\* C3: every workflow value is assigned only by the handler of the reply
\* that produces it, from a reply that provides it, and is used only
\* after that: the register request carries the simulation id of the
\* simulate reply, the create-proposal request the client code of the
\* register reply and the same simulation id, the send-link request the
\* proposal code of the create-proposal reply, and the success response
\* that proposal code and the URL of the same reply.
C3_ValuesThreadedFromReplies ==
    [][\A o \in OpIds :
         /\ AppendOnly(o)
         /\ id_sim'[o] # id_sim[o]
              => /\ pc[o] = "await_r2" /\ id_sim[o] = Unset
                 /\ Provides(lastReply'[o], "id_simulador")
                 /\ id_sim'[o] = lastReply'[o].text.json.id_simulador
         /\ codigo_cliente'[o] # codigo_cliente[o]
              => /\ pc[o] = "await_r3" /\ codigo_cliente[o] = Unset
                 /\ Provides(lastReply'[o], "codigo_cliente")
                 /\ codigo_cliente'[o] = lastReply'[o].text.json.codigo_cliente
         /\ (codigo'[o] # codigo[o] \/ url_form'[o] # url_form[o])
              => /\ pc[o] = "await_r4" /\ codigo[o] = Unset /\ url_form[o] = Unset
                 /\ Provides(lastReply'[o], "codigo")
                 /\ codigo'[o] = lastReply'[o].text.json.codigo
                 /\ url_form'[o] = Get(lastReply'[o].text.json, "url_formalizacao", PyNone)
         /\ \A i \in NewCalls(o) :
              LET q == calls'[o][i]
              IN  /\ q.ep = "etapa2-dados-pessoais"
                       => id_sim'[o] # Unset /\ q.data.id_simulador = id_sim'[o]
                  /\ q.ep = "etapa3-proposta-cadastro"
                       => /\ id_sim'[o] # Unset /\ q.data.id_simulador = id_sim'[o]
                          /\ codigo_cliente'[o] # Unset
                          /\ q.data.codigo_cliente = codigo_cliente'[o]
                  /\ q.ep = "envio-link"
                       => codigo'[o] # Unset /\ q.data.codigo_af = codigo'[o]
         /\ (Formalizing(o) /\ result'[o] # result[o] /\ result'[o].type = "ok")
              => /\ codigo[o] # Unset
                 /\ result'[o].codigo = codigo[o]
                 /\ result'[o].url_formalizacao = url_form[o]]_vars

\* C3 witness: a formalization that succeeded with the second simulation
\* id, client code and proposal code the lender can give.
C3_Witness ==
    \E o \in OpIds :
        /\ Formalizing(o) /\ pc[o] = "done" /\ result[o].type = "ok"
        /\ id_sim[o] = JStr("S2") /\ codigo_cliente[o] = JStr("K2")
        /\ result[o].codigo = JStr("P2") /\ result[o].url_formalizacao = JStr("U2")
        /\ calls[o][5].data.codigo_cliente = JStr("K2")
        /\ calls[o][5].data.id_simulador = JStr("S2")

\* the lender endpoints C4 speaks of
ClassifiedEndpoints ==
    { "gera-token", "consulta-ofertas", "operacoes-disponiveis", "etapa1-simulador",
      "etapa2-dados-pessoais", "etapa3-proposta-cadastro" }

\* C4 (as claimed): a response whose content type begins with text/html,
\* from any of the six endpoints, ends the operation with UpstreamBlocked.
C4_HtmlAlwaysBlocked ==
    \A o \in OpIds :
        ( /\ nret[o] >= 1
          /\ lastReply[o].kind = "response"
          /\ IsHtml(lastReply[o])
          /\ RepliedEp(o) \in ClassifiedEndpoints )
          => pc[o] = "done" /\ UpstreamBlocked(result[o])

NetValue(x) ==
    IF "valor_liquido" \notin DOMAIN x THEN 0
    ELSE IF x.valor_liquido.k = "num" THEN x.valor_liquido.n
    ELSE NumericStrings[x.valor_liquido.s]

\* the table list of the reply r
TablesOf(r) == r.text.json.tabelas.items

\* b is the first element of t among those of maximum net value
FirstMaximum(t, b) ==
    \E i \in 1..Len(t) :
        /\ b = t[i]
        /\ \A k \in 1..Len(t) : NetValue(t[k]) <= NetValue(t[i])
        /\ \A k \in 1..(i - 1) : NetValue(t[k]) < NetValue(t[i])

\* C6: whenever a table is selected from the lender's list (the list is
\* non-empty and every net value in it is a number or missing, a missing
\* one counting 0), it is an element of maximum net value, and the first
\* such element of the list; the simulate request is built from it.
C6_BestIsFirstMaximum ==
    \A o \in OpIds :
        pc[o] = "await_r2"
          => /\ FirstMaximum(TablesOf(lastReply[o]), best[o])
             /\ calls[o][3].data.codigo_tabela = Str(best[o].codigoTabela)

\* C6 witness: two different candidates share the maximum and the first
\* of them was selected.
C6_Witness ==
    \E o \in OpIds :
        /\ pc[o] = "await_r2"
        /\ LET t == TablesOf(lastReply[o])
           IN  /\ Len(t) = 2
               /\ NetValue(t[1]) = NetValue(t[2])
               /\ t[1].codigoTabela # t[2].codigoTabela
               /\ best[o] = t[1]

\* the net value of a candidate with "missing or non-numeric counts as zero"
NetValueOrZero(x) ==
    IF "valor_liquido" \notin DOMAIN x THEN 0
    ELSE IF x.valor_liquido.k = "num" THEN x.valor_liquido.n
    ELSE IF x.valor_liquido.k = "str" /\ x.valor_liquido.s \in DOMAIN NumericStrings
      THEN NumericStrings[x.valor_liquido.s]
    ELSE 0

\* C7 (as claimed): whenever the lender returns a non-empty list of
\* well-formed candidates, a table is selected and step 1 is issued: it is
\* the first maximum when a missing or non-numeric net value counts as zero.
C7_BadNetValueRanksAsZero ==
    \A o \in OpIds :
        ( /\ Formalizing(o) /\ nret[o] = 2
          /\ ObjectReply(lastReply[o])
          /\ Truthy(Get(lastReply[o].text.json, "tabelas", JList(<< >>)))
          /\ \A i \in 1..Len(TablesOf(lastReply[o])) :
               {"codigoTabela", "prazo"} \subseteq DOMAIN TablesOf(lastReply[o])[i] )
          => /\ pc[o] = "await_r2"
             /\ LET t == TablesOf(lastReply[o])
                IN  \E i \in 1..Len(t) :
                      /\ best[o] = t[i]
                      /\ \A k \in 1..Len(t) : NetValueOrZero(t[k]) <= NetValueOrZero(t[i])
                      /\ \A k \in 1..(i - 1) : NetValueOrZero(t[k]) < NetValueOrZero(t[i])

\* the token exchange was answered 200, not HTML, with a usable token
TokenGranted(r) ==
    r.kind = "response" /\ ~IsHtml(r) /\ r.status = 200 /\ Provides(r, "token")

\* C8: in an offer query and in a formalization alike, the first lender
\* call and only the first is the token exchange; a second call is issued
\* only by the handler of a token reply that granted a token, and it and
\* every later call carry exactly that token as bearer credential; no
\* operation ends without having made the token exchange.
C8_OneTokenForAllCalls ==
    [][\A o \in OpIds :
         /\ AppendOnly(o)
         /\ \A i \in NewCalls(o) :
              LET q == calls'[o][i]
              IN  /\ (i = 1) <=> (q.ep = "gera-token")
                  /\ i = 2 => /\ pc[o] = "await_token"
                              /\ TokenGranted(lastReply'[o])
                              /\ q.auth = Bearer(lastReply'[o].text.json.token)
                  /\ i > 2 => q.auth = calls[o][2].auth
         /\ pc'[o] = "done" => Len(calls'[o]) >= 1 /\ calls'[o][1].ep = "gera-token"]_vars

\* C8 witness: a formalization that made all its six calls, the last five
\* of them with the token tokB of the token reply.
C8_Witness ==
    \E o \in OpIds :
        /\ Formalizing(o) /\ Len(calls[o]) = 6
        /\ token[o] = JStr("tokB")
        /\ \A i \in 2..6 : calls[o][i].auth = [scheme |-> "Bearer", cred |-> "tokB"]

\* the fixed order of the lender calls of a formalization
FormalizeOrder ==
    << "gera-token", "operacoes-disponiveis", "etapa1-simulador",
       "etapa2-dados-pessoais", "etapa3-proposta-cadastro", "envio-link" >>

\* C9: the lender calls of a formalization are a prefix of the fixed order
\* (so no endpoint is called twice), at most one call is awaiting its reply,
\* and a finished operation has none outstanding.
C9_CallsArePrefixOfFixedOrder ==
    \A o \in OpIds :
        Formalizing(o)
          => /\ Len(calls[o]) <= Len(FormalizeOrder)
             /\ \A i \in 1..Len(calls[o]) : calls[o][i].ep = FormalizeOrder[i]
             /\ nret[o] <= Len(calls[o])
             /\ Len(calls[o]) <= nret[o] + 1
             /\ pc[o] = "done" => nret[o] = Len(calls[o])

\* C9 witness: the sixth call is awaiting its reply after the five before
\* it have returned.
C9_Witness ==
    \E o \in OpIds :
        /\ Formalizing(o) /\ pc[o] = "await_r5"
        /\ Len(calls[o]) = 6 /\ nret[o] = 5

\* C10 (as claimed): the reply to the token exchange is classified:
\* unreachable lender or non-success status -> UpstreamUnavailable; HTML
\* content type -> UpstreamBlocked; a decoded object without a usable token
\* -> UpstreamProtocolError; otherwise the token is returned.
C10_TokenReplyClassified ==
    \A o \in OpIds :
        nret[o] = 1
          => LET r == lastReply[o]
             IN  /\ (r.kind = "exc" \/ (r.kind = "response" /\ ~IsHtml(r) /\ r.status # 200))
                      => pc[o] = "done" /\ UpstreamUnavailable(result[o])
                 /\ (r.kind = "response" /\ IsHtml(r))
                      => pc[o] = "done" /\ UpstreamBlocked(result[o])
                 /\ ( /\ r.kind = "response" /\ ~IsHtml(r) /\ r.status = 200
                      /\ ObjectReply(r) /\ ~Provides(r, "token") )
                      => pc[o] = "done" /\ UpstreamProtocolError(result[o])
                 /\ TokenGranted(r)
                      => pc[o] # "done" /\ token[o] = r.text.json.token

\* r is what a call gets when its per-call timeout elapses
TimedOut(r) == r.kind = "exc" /\ r.exc = "httpx.TimeoutException"

\* C11: when the timeout elapses on the call an operation is suspended on
\* (token exchange, offer lookup, available-operations, simulate, register,
\* create-proposal or send-link), the operation ends at once with a
\* failure (the timeout exception, which nothing catches) and never
\* issues another lender call.
C11_TimeoutAbortsOperation ==
    [][\A o \in OpIds :
         /\ (Returns(o) /\ TimedOut(lastReply'[o]))
              => /\ pc'[o] = "done"
                 /\ result'[o] = Unhandled("httpx.TimeoutException")
                 /\ calls'[o] = calls[o]
         /\ pc[o] = "done" => (calls'[o] = calls[o] /\ result'[o] = result[o])]_vars

\* C11 witness: the timeout elapsed on the last call, send-link, after the
\* proposal was created, and the operation failed.
C11_Witness ==
    \E o \in OpIds :
        /\ pc[o] = "done" /\ Len(calls[o]) = 6
        /\ RepliedEp(o) = "envio-link"
        /\ TimedOut(lastReply[o])
        /\ result[o] = Unhandled("httpx.TimeoutException")
        /\ codigo[o] = JStr("P1")

\* the parsed body of the offer-lookup reply r
OfferJson(r) == r.text.json

\* the parsed body j has no offer list: it is not an object, or it has
\* neither "dados" nor "ofertas", or what it has under them is no list
NoOfferList(j) ==
    \/ ~IsDict(j)
    \/ {"dados", "ofertas"} \cap DOMAIN j = {}
    \/ \A f \in {"dados", "ofertas"} \cap DOMAIN j : IsDict(j[f]) \/ j[f].k # "list"

\* C12 (as claimed): once the token is acquired, every offer-lookup reply
\* that is not HTML and decodes as JSON ends the query in success, whatever
\* the shape of the decoded body; without an offer list the offers are empty.
C12_ParsedReplyAlwaysSucceeds ==
    \A o \in OpIds :
        ( /\ Consulting(o) /\ nret[o] = 2
          /\ lastReply[o].kind = "response"
          /\ ~IsHtml(lastReply[o])
          /\ IsJson(lastReply[o].text) )
          => /\ pc[o] = "done"
             /\ result[o].type = "ok"
             /\ NoOfferList(OfferJson(lastReply[o])) => result[o].ofertas = << >>

\* the list the offers are read from: the value under "dados" if it is
\* non-empty, else the one under "ofertas"; no entries when it is no list
OfferList(j) ==
    LET found == IF "dados" \in DOMAIN j /\ Truthy(j.dados) THEN j.dados
                 ELSE IF "ofertas" \in DOMAIN j /\ Truthy(j.ofertas) THEN j.ofertas
                 ELSE JList(<< >>)
    IN  IF ~IsDict(found) /\ found.k = "list" THEN found.items ELSE << >>

\* the value of an entry under the first of two names that is present
FirstNamed(d, a, b) ==
    IF a \in DOMAIN d THEN d[a] ELSE IF b \in DOMAIN d THEN d[b] ELSE PyNone

\* a successful offer query has ended in slot o
ConsultaOk(o) == Consulting(o) /\ pc[o] = "done" /\ result[o].type = "ok"

\* C13 (as claimed): every returned offer takes each field from the first
\* of its two names that the raw entry has (oferta before descricao,
\* resposta before situacao), whatever the value, and is absent when the
\* entry has neither; so an entry with only descricao/situacao gives the
\* same offer as one with the same values under oferta/resposta.
C13_FirstNamedFieldWins ==
    \A o \in OpIds :
        ConsultaOk(o)
          => LET raw == OfferList(OfferJson(lastReply[o]))
             IN  \A i \in 1..Len(raw) :
                   /\ result[o].ofertas[i].oferta = FirstNamed(raw[i], "oferta", "descricao")
                   /\ result[o].ofertas[i].resposta = FirstNamed(raw[i], "resposta", "situacao")

\* the value the code takes for a field with names a, b (a first): an
\* empty or null value counts as not given
FirstUsable(d, a, b) ==
    IF a \in DOMAIN d /\ Truthy(d[a]) THEN d[a]
    ELSE IF b \in DOMAIN d THEN d[b]
    ELSE PyNone

\* C13 (amended): each field of a returned offer is the value under the
\* first name when that value is non-empty; otherwise (first name missing,
\* or its value empty or null) it is the value under the second name, and
\* absent when the second name is missing too.  So entries with only
\* descricao/situacao and entries with the same non-empty values under
\* oferta/resposta give the same offer, and an entry with neither name
\* gives an offer with both fields absent.
C13_FirstUsableFieldWins ==
    \A o \in OpIds :
        ConsultaOk(o)
          => LET raw == OfferList(OfferJson(lastReply[o]))
             IN  /\ Len(result[o].ofertas) = Len(raw)
                 /\ \A i \in 1..Len(raw) :
                      /\ result[o].ofertas[i].oferta = FirstUsable(raw[i], "oferta", "descricao")
                      /\ result[o].ofertas[i].resposta
                           = FirstUsable(raw[i], "resposta", "situacao")

\* C13 witness: the lender listed the same offer once under
\* descricao/situacao and once under oferta/resposta, and the two offers
\* returned are equal.
C13_Witness ==
    \E o \in OpIds :
        /\ ConsultaOk(o)
        /\ LET raw == OfferList(OfferJson(lastReply[o]))
           IN  /\ Len(raw) = 2
               /\ DOMAIN raw[1] = {"descricao", "situacao"}
               /\ DOMAIN raw[2] = {"oferta", "resposta"}
               /\ raw[1].descricao = raw[2].oferta /\ raw[1].situacao = raw[2].resposta
               /\ result[o].ofertas[1] = result[o].ofertas[2]
               /\ result[o].ofertas[1] = [oferta |-> JStr("Refin"), resposta |-> JStr("Aprovado")]

RECURSIVE DigitsOnly(_)
\* the subsequence of the digit characters of s, in their order
DigitsOnly(s) ==
    IF s = << >> THEN << >>
    ELSE IF Head(s) \in Digit THEN << Head(s) >> \o DigitsOnly(Tail(s))
    ELSE DigitsOnly(Tail(s))

\* the lender endpoints whose request carries the id number
IdCarryingEndpoints ==
    { "consulta-ofertas", "operacoes-disponiveis", "etapa1-simulador",
      "etapa2-dados-pessoais" }

\* C14: the canonical id number an operation computes is exactly the digit
\* characters of the cpf it was given, in their order, and every request of
\* offer lookup, available-operations, simulate and register carries that
\* canonical form as its cpf.
C14_RequestsCarryCanonicalId ==
    \A o \in OpIds :
        /\ Len(calls[o]) >= 2 => cpf[o] = DigitsOnly(op[o].body.cpf)
        /\ \A i \in 1..Len(calls[o]) :
             calls[o][i].ep \in IdCarryingEndpoints
               => calls[o][i].data.cpf = DigitsOnly(op[o].body.cpf)

\* C14 witness: a formalization given " 0/9x" has sent "09" in its
\* available-operations, simulate and register requests.
C14_Witness ==
    \E o \in OpIds :
        /\ Formalizing(o) /\ Len(calls[o]) >= 4
        /\ op[o].body.cpf = <<" ", "0", "/", "9", "x">>
        /\ \A i \in 2..4 : calls[o][i].data.cpf = <<"0", "9">>

\* a local of the handler holds a usable value
Assigned(v) == v # Unset /\ Truthy(v)

\* the outcome of a formalization in slot o is all success or all failure
WhollySuccessOrFailure(o) ==
    /\ pc[o] # "done" => result[o] = NoResult
    /\ pc[o] = "done" => result[o].type \in {"ok", "HTTPException", "Unhandled"}
    /\ result[o].type \in {"HTTPException", "Unhandled"}
         => {"codigo", "url_formalizacao"} \cap DOMAIN result[o] = {}
    /\ result[o].type = "ok"
         => /\ pc[o] = "done" /\ Len(calls[o]) = 6 /\ nret[o] = 6
            /\ Assigned(token[o]) /\ best[o] # Unset
            /\ Assigned(id_sim[o]) /\ Assigned(codigo_cliente[o]) /\ Assigned(codigo[o])
            /\ result[o].codigo = codigo[o]
            /\ result[o].status = "ok"

\* C15: a formalization has no outcome while it runs, and when it has
\* ended its outcome is either a failure without proposal code or the
\* success response; the success response exists only after the token, the
\* selected table, the simulation id, the client code and the proposal code
\* were all obtained, and carries that (non-empty) code.
C15_WhollySuccessOrFailure ==
    \A o \in OpIds : Formalizing(o) => WhollySuccessOrFailure(o)

\* C15 witness: a formalization ended in success with proposal code P2.
C15_Witness ==
    \E o \in OpIds :
        /\ Formalizing(o) /\ pc[o] = "done" /\ result[o].type = "ok"
        /\ result[o].codigo = JStr("P2") /\ Len(calls[o]) = 6

\* the simulate request body d is built from the table b
BuiltFrom(d, b) ==
    /\ d.codigo_tabela = Str(b.codigoTabela)
    /\ d.prazo = Str(b.prazo)
    /\ "parcela" \in DOMAIN b => d.valor_parcela = Str(b.parcela)
    /\ "coeficiente" \in DOMAIN b => d.coeficiente = Str(b.coeficiente)
    /\ "contrato" \in DOMAIN b => d.valor_operacao = Str(b.contrato)
    /\ ("contrato" \notin DOMAIN b /\ "valor_liquido" \in DOMAIN b)
         => d.valor_operacao = Str(b.valor_liquido)

\* C16: when the simulate request has been issued, its table code, term,
\* installment and coefficient are those of the element of the lender's list
\* that the ranking rule chooses (the first of maximum net value), and its
\* operation value is that element's contract value when it has one and
\* otherwise its net value.
C16_SimulateBuiltFromBest ==
    \A o \in OpIds :
        pc[o] = "await_r2"
          => /\ calls[o][3].ep = "etapa1-simulador"
             /\ LET t == TablesOf(lastReply[o])
                IN  /\ \E i \in 1..Len(t) : FirstMaximum(t, t[i])
                    /\ \A i \in 1..Len(t) :
                         FirstMaximum(t, t[i]) => BuiltFrom(calls[o][3].data, t[i])

\* C16 witness: of two tables the second has the larger net value, and the
\* simulate request carries its code, term, installment, coefficient and
\* net value.
C16_Witness ==
    \E o \in OpIds :
        /\ pc[o] = "await_r2"
        /\ LET t == TablesOf(lastReply[o])
               d == calls[o][3].data
           IN  /\ Len(t) = 2
               /\ NetValue(t[1]) < NetValue(t[2])
               /\ t[1].codigoTabela = JStr("T1")
               /\ d.codigo_tabela = "T2" /\ d.prazo = "24" /\ d.valor_parcela = "5"
               /\ d.coeficiente = "0.05" /\ d.valor_operacao = "2"

\* C18: an operation that has not started or that has ended (in success, in
\* a classified failure, or aborted by a timeout or another exception of
\* the transport) holds no open transport client; the client of the token
\* exchange is open only while the token exchange is awaited, and an
\* operation never holds two clients at once.
C18_ClientsReleased ==
    \A o \in OpIds :
        /\ pc[o] \in {"idle", "start", "done"} => open[o] = {}
        /\ "get_token.cx" \in open[o] => pc[o] = "await_token"
        /\ Cardinality(open[o]) <= 1

\* C18 witness: a formalization was aborted by a timeout of step 2, after
\* it had opened the client of the token exchange and its own client, and
\* holds none.
C18_Witness ==
    \E o \in OpIds :
        /\ Formalizing(o) /\ pc[o] = "done" /\ Len(calls[o]) = 4
        /\ TimedOut(lastReply[o])
        /\ result[o] = Unhandled("httpx.TimeoutException")
        /\ open[o] = {}

\* the offer o_ is made of values of the raw entry d
MadeFrom(o_, d) ==
    /\ o_.oferta \in {Get(d, "oferta", PyNone), Get(d, "descricao", PyNone)}
    /\ o_.resposta \in {Get(d, "resposta", PyNone), Get(d, "situacao", PyNone)}

\* C19: in a successful offer query there are as many returned offers as
\* entries in the lender's offer list, the i-th offer is made of the values
\* of the i-th entry, and total_ofertas is the number of returned offers.
C19_OffersMatchLenderList ==
    \A o \in OpIds :
        ConsultaOk(o)
          => LET raw == OfferList(OfferJson(lastReply[o]))
                 ofertas == result[o].ofertas
             IN  /\ result[o].total_ofertas = Len(ofertas)
                 /\ Len(ofertas) = Len(raw)
                 /\ \A i \in 1..Len(raw) : MadeFrom(ofertas[i], raw[i])

\* C19 witness: the lender's list is the single entry {descricao: Refin,
\* situacao: Aprovado} and the query returned the one offer
\* {Refin, Aprovado} with total_ofertas 1.
C19_Witness ==
    \E o \in OpIds :
        /\ ConsultaOk(o)
        /\ OfferJson(lastReply[o]) =
             [dados |-> JList(<< [descricao |-> JStr("Refin"), situacao |-> JStr("Aprovado")] >>)]
        /\ result[o].ofertas = << [oferta |-> JStr("Refin"), resposta |-> JStr("Aprovado")] >>
        /\ result[o].total_ofertas = 1

\* everything slot o holds
Slot(o) ==
    <<op[o], pc[o], token[o], cpf[o], best[o], id_sim[o], codigo_cliente[o], codigo[o],
      url_form[o], calls[o], nret[o], lastReply[o], open[o], result[o]>>

\* a step is a step of one operation: it leaves every other slot as it was
OneSlotSteps == \E o \in OpIds : \A p \in OpIds \ {o} : Slot(p)' = Slot(p)

\* the request operation o issues in this step is made of the request o
\* serves, of the reply o itself just received and of o's earlier requests
OwnRequest(o) ==
    LET i == Len(calls'[o])
        q == calls'[o][i]
        r == lastReply'[o]
        body == op[o].body
    IN  /\ i = 1 => q = Request("gera-token", Basic, NoData)
        /\ i = 2 => q.auth = Bearer(r.text.json.token)
        /\ i > 2 => q.auth = calls[o][2].auth
        /\ i > 1 => q.auth.scheme = "Bearer"
        /\ "cpf" \in DOMAIN q.data => q.data.cpf = DigitsOnly(body.cpf)
        /\ \A f \in DOMAIN q.data \cap {"nome", "data_nascimento", "renda", "opcao_valor"} :
             q.data[f] = body[f]
        /\ (i \in {2, 4} /\ Formalizing(o))
             => q.data.prazo = body.prazo /\ q.data.valor_parcela = body.valor_parcela
        /\ (i = 2 /\ Formalizing(o)) => q.data.valor_renda = body.renda
        /\ i = 3 => \E k \in 1..Len(TablesOf(r)) :
                      /\ FirstMaximum(TablesOf(r), TablesOf(r)[k])
                      /\ BuiltFrom(q.data, TablesOf(r)[k])
        /\ i = 4 => q.data.id_simulador = r.text.json.id_simulador
        /\ i = 5 => /\ q.data.codigo_cliente = r.text.json.codigo_cliente
                    /\ q.data.id_simulador = calls[o][4].data.id_simulador
        /\ i = 6 => q.data.codigo_af = r.text.json.codigo

\* the outcome operation o ends with in this step is the one the handler
\* computes from the reply o itself just received and o's own requests
OwnOutcome(o) ==
    LET r == lastReply'[o]
        k == nret'[o]
        c == consulta(r, DigitsOnly(op[o].body.cpf))
    IN  /\ k = Len(calls[o])
        /\ CASE k = 1 -> result'[o] = get_token(r).res
             [] k = 2 /\ Consulting(o) ->
                  result'[o] = IF c.raised THEN c.res ELSE consulta_ok(c.val)
             [] k = 2 /\ Formalizing(o) -> result'[o] = operacoes_disponiveis(r).res
             [] k = 3 -> result'[o] = etapa1(r).res
             [] k = 4 -> result'[o] = etapa2(r).res
             [] k = 5 -> result'[o] = etapa3(r).res
             [] k = 6 ->
                  IF envio_link(r).raised THEN result'[o] = envio_link(r).res
                  ELSE \E b \in PropBodies :
                         /\ IsJson(b) /\ IsDict(b.json) /\ "codigo" \in DOMAIN b.json
                         /\ b.json.codigo = calls[o][6].data.codigo_af
                         /\ result'[o] = formalizar_ok(b.json.codigo,
                                                       Get(b.json, "url_formalizacao", PyNone))
             [] OTHER -> FALSE

\* C17: when two operations are served at once, in any interleaving of
\* their steps at the awaits, a step touches one operation only; every
\* request an operation issues carries the token of its own token reply,
\* the simulation id, client code and proposal code of its own replies and
\* the applicant data of its own request; and the outcome an operation ends
\* with is the one its handler computes from its own replies alone.
C17_OperationsIsolated ==
    [][/\ OneSlotSteps
       /\ \A o \in OpIds :
            /\ AppendOnly(o) /\ Len(calls'[o]) <= Len(calls[o]) + 1
            /\ Len(calls'[o]) = Len(calls[o]) + 1 => OwnRequest(o)
            /\ (pc[o] # "done" /\ pc'[o] = "done") => OwnOutcome(o)
            /\ StaysFinished(o)]_vars

\* C17 witness: two formalizations of different applicants are suspended at
\* once, one on the link delivery and one on step 2, each with its own
\* token, simulation id and applicant data in its requests.
C17_Witness ==
    /\ Concurrent
    /\ \A o \in OpIds : Formalizing(o)
    /\ pc[1] = "await_r5" /\ pc[2] = "await_r3"
    /\ token[1] # token[2] /\ id_sim[1] # id_sim[2]
    /\ calls[1][4].data.nome = "Ana" /\ calls[2][4].data.nome = "Bia"
    /\ calls[1][4].data.id_simulador = id_sim[1]
    /\ calls[2][4].data.id_simulador = id_sim[2]
    /\ calls[1][6].auth = Bearer(token[1]) /\ calls[2][4].auth = Bearer(token[2])

====
